---- MODULE Spec2Model ----
(***************************************************************************)
(* A/B testing service: the statistical core (metrics summary, hypothesis  *)
(* tests, confidence intervals, power analysis, recommendation) and the    *)
(* HTTP handlers of main.py that run it and write the output artifacts.    *)
(*                                                                         *)
(* Numbers.  A Python/numpy float is modelled as a record                  *)
(*   [k |-> "num", v |-> i]   a finite value, i an integer in a fixed      *)
(*                            decimal unit stated where the value is made  *)
(*   [k |-> "nan", v |-> 0]   NaN                                           *)
(*   [k |-> "inf", v |-> s]   +infinity (s = 1) or -infinity (s = -1)       *)
(* Intermediate values are exact fractions n/d of integers; round(x, k) is *)
(* applied to the exact fraction (round-half-even, as Python and numpy do).*)
(***************************************************************************)
EXTENDS Integers, Sequences, FiniteSets, TLC

VARIABLES
    build,  \* "statsmodels" when the statsmodels package is installed, else
            \* "fallback": the try/except ImportError definitions are in use
    df,     \* the dataset a core function is applied to: a sequence of rows
    args,   \* the arguments of a direct call of generate_business_insights
    call,   \* the core function that was applied ("none" before the call)
    ret,    \* what that call returned (or the error it raised)
    library,\* the answers of scipy and statsmodels in a run of the service
    files,  \* the dataset file and the output files of the service
    reqs,   \* the requests of the service: one record per slot
    rng,    \* numpy's global random generator: draws since the last seeding
    cwd,    \* the working directory of the service process
    earlier,\* one of the calls of generate_business_insights made before the
            \* current one: its arguments and what it returned
    started \* the files the service found when it started

vars == <<build, df, args, call, ret, library, files, reqs, rng, cwd, earlier,
          started>>

\* what belongs to the service; a direct call of a core function leaves it
service == <<library, files, reqs, rng, cwd, started>>

----------------------------------------------------------------------------
(* Floats *)

Num(i)  == [k |-> "num", v |-> i]
NaN     == [k |-> "nan", v |-> 0]
Inf(s)  == [k |-> "inf", v |-> s]

IsNum(x) == x.k = "num"
IsNaN(x) == x.k = "nan"

\* x < y on floats: every comparison with NaN is false
FLt(x, y) ==
    IF IsNaN(x) \/ IsNaN(y) THEN FALSE
    ELSE IF x.k = "inf" THEN x.v < 0 /\ ~(y.k = "inf" /\ y.v < 0)
    ELSE IF y.k = "inf" THEN y.v > 0
    ELSE x.v < y.v

FGt(x, y) == FLt(y, x)

\* x <= y on floats
FLe(x, y) ==
    IF IsNaN(x) \/ IsNaN(y) THEN FALSE
    ELSE IF x.k = "inf" /\ y.k = "inf" THEN x.v <= y.v
    ELSE IF x.k = "inf" THEN x.v < 0
    ELSE IF y.k = "inf" THEN y.v > 0
    ELSE x.v <= y.v

Abs(i) == IF i < 0 THEN -i ELSE i
Sign(i) == IF i > 0 THEN 1 ELSE IF i < 0 THEN -1 ELSE 0

\* floor(n / d) for d > 0, n any integer
FloorDiv(n, d) ==
    IF n >= 0 THEN n \div d
    ELSE IF (-n) % d = 0 THEN -((-n) \div d) ELSE -((-n) \div d) - 1

\* ceil(n / d) for d > 0
CeilDiv(n, d) == -FloorDiv(-n, d)

\* the integer nearest to n / d (d > 0), ties to the even one: round()
RoundDiv(n, d) ==
    LET q == FloorDiv(n, d)
        r == n - q * d
    IN  IF 2 * r < d THEN q
        ELSE IF 2 * r > d THEN q + 1
        ELSE IF q % 2 = 0 THEN q ELSE q + 1

----------------------------------------------------------------------------
(* business_insights.generate_business_insights                            *)
(* Units: conversion_uplift_pct in 1/100 percent, conversion rates and     *)
(* differences in 1/10000.  A formatted string is modelled by the record   *)
(* of its template and the numbers printed in it, as printed.              *)

\* the threshold of the second rule, "uplift > 5" (percent), in 1/100 percent
PracticalUpliftPct == 500

\* f"{x:.2f}" of a value held in 1/10000: two decimals, in 1/100
Fmt2(x) == IF IsNum(x) THEN Num(RoundDiv(x.v, 100)) ELSE x

\* f"{rate*100:.2f}" of a rate held in 1/10000: the percentage, in 1/100
FmtPct(x) == IF IsNum(x) THEN Num(RoundDiv(x.v * 100, 100)) ELSE x

BoolToInt(b) == IF b THEN 1 ELSE 0

Insight(text, a, b, c) == [text |-> text, a |-> a, b |-> b, c |-> c]
Rationale(text, a) == [text |-> text, a |-> a]

\* Recommend with the second rule read as "uplift >= 5"
Recommend_UpliftAtLeast5(conv_sig, time_sig, clicks_sig, uplift) ==
    LET significant_count ==
            BoolToInt(conv_sig) + BoolToInt(time_sig) + BoolToInt(clicks_sig)
    IN  IF significant_count >= 2 /\ conv_sig /\ FGt(uplift, Num(0))
        THEN [recommendation |-> "ROLLOUT",
              rationale |-> Rationale("multiple_metrics", Num(0))]
        ELSE IF conv_sig /\ ~FLt(uplift, Num(PracticalUpliftPct))
        THEN [recommendation |-> "ROLLOUT",
              rationale |-> Rationale("practical_uplift", uplift)]
        ELSE IF significant_count = 1 /\ ~conv_sig
        THEN [recommendation |-> "DO NOT ROLLOUT",
              rationale |-> Rationale("no_primary_improvement", Num(0))]
        ELSE [recommendation |-> "MONITOR",
              rationale |-> Rationale("mixed", Num(0))]

\* lines 75-102: the recommendation and its rationale
Recommend(conv_sig, time_sig, clicks_sig, uplift) ==
    LET significant_count ==
            BoolToInt(conv_sig) + BoolToInt(time_sig) + BoolToInt(clicks_sig)
    IN  IF significant_count >= 2 /\ conv_sig /\ FGt(uplift, Num(0))
        THEN [recommendation |-> "ROLLOUT",
              rationale |-> Rationale("multiple_metrics", Num(0))]
        ELSE IF conv_sig /\ FGt(uplift, Num(PracticalUpliftPct))
        THEN [recommendation |-> "ROLLOUT",
              rationale |-> Rationale("practical_uplift", uplift)]
        ELSE IF significant_count = 1 /\ ~conv_sig
        THEN [recommendation |-> "DO NOT ROLLOUT",
              rationale |-> Rationale("no_primary_improvement", Num(0))]
        ELSE [recommendation |-> "MONITOR",
              rationale |-> Rationale("mixed", Num(0))]

\* Insights with the clicks insight appended before the time_spent insight
Insights_ClicksBeforeTimeSpent(metrics, conv_sig, time_sig, clicks_sig, uplift) ==
    LET diff == metrics.differences
        first ==
            IF conv_sig
            THEN Insight("conversion_lift", uplift,
                         FmtPct(metrics.control.conversion_rate),
                         FmtPct(metrics.variant.conversion_rate))
            ELSE Insight("conversion_not_significant", Num(0), Num(0), Num(0))
        second ==
            IF time_sig
            THEN <<Insight("time_spent_gain", Fmt2(diff.time_spent_diff), Num(0), Num(0))>>
            ELSE <<>>
        third ==
            IF clicks_sig
            THEN <<Insight("clicks_gain", Fmt2(diff.clicks_diff), Num(0), Num(0))>>
            ELSE <<>>
    IN  <<first>> \o third \o second

\* lines 49-73: the ordered list of insight strings
Insights(metrics, conv_sig, time_sig, clicks_sig, uplift) ==
    LET diff == metrics.differences
        first ==
            IF conv_sig
            THEN Insight("conversion_lift", uplift,
                         FmtPct(metrics.control.conversion_rate),
                         FmtPct(metrics.variant.conversion_rate))
            ELSE Insight("conversion_not_significant", Num(0), Num(0), Num(0))
        second ==
            IF time_sig
            THEN <<Insight("time_spent_gain", Fmt2(diff.time_spent_diff), Num(0), Num(0))>>
            ELSE <<>>
        third ==
            IF clicks_sig
            THEN <<Insight("clicks_gain", Fmt2(diff.clicks_diff), Num(0), Num(0))>>
            ELSE <<>>
    IN  <<first>> \o second \o third

\* generate_business_insights reporting the engagement metrics only in
\* significant_metrics
generate_business_insights_EngagementCount(metrics, test_results, power) ==
    LET conv_sig   == test_results.conversion_rate.significant
        time_sig   == test_results.time_spent.significant
        clicks_sig == test_results.clicks.significant
        uplift     == power.conversion_uplift_pct
        rec        == Recommend(conv_sig, time_sig, clicks_sig, uplift)
    IN  [insights |-> Insights(metrics, conv_sig, time_sig, clicks_sig, uplift),
         recommendation |-> rec.recommendation,
         rationale |-> rec.rationale,
         significant_metrics |-> BoolToInt(time_sig) + BoolToInt(clicks_sig),
         total_metrics_tested |-> 3]

\* generate_business_insights with a rationale that quotes the time_spent
\* difference of the metrics summary
generate_business_insights_RationaleQuotesMetrics(metrics, test_results, power) ==
    LET conv_sig   == test_results.conversion_rate.significant
        time_sig   == test_results.time_spent.significant
        clicks_sig == test_results.clicks.significant
        uplift     == power.conversion_uplift_pct
        rec        == Recommend(conv_sig, time_sig, clicks_sig, uplift)
    IN  [insights |-> Insights(metrics, conv_sig, time_sig, clicks_sig, uplift),
         recommendation |-> rec.recommendation,
         rationale |-> Rationale(rec.rationale.text,
                                 Fmt2(metrics.differences.time_spent_diff)),
         significant_metrics |->
             BoolToInt(conv_sig) + BoolToInt(time_sig) + BoolToInt(clicks_sig),
         total_metrics_tested |-> 3]

\* lines 38-110
generate_business_insights(metrics, test_results, power) ==
    LET conv_sig   == test_results.conversion_rate.significant
        time_sig   == test_results.time_spent.significant
        clicks_sig == test_results.clicks.significant
        uplift     == power.conversion_uplift_pct
        rec        == Recommend(conv_sig, time_sig, clicks_sig, uplift)
    IN  [insights |-> Insights(metrics, conv_sig, time_sig, clicks_sig, uplift),
         recommendation |-> rec.recommendation,
         rationale |-> rec.rationale,
         significant_metrics |->
             BoolToInt(conv_sig) + BoolToInt(time_sig) + BoolToInt(clicks_sig),
         total_metrics_tested |-> 3]

----------------------------------------------------------------------------
(* The dataset: rows of the CSV file, as pandas reads them.  A row holds   *)
(* the columns the core reads: group, converted, time_spent, clicks and    *)
(* session_count.  The datasets drawn have no missing cell, so dropna()    *)
(* keeps every value of a column.                                          *)

MaxRows  == 5      \* rows of a dataset drawn
MaxOther == 1      \* rows among them with a label other than control, variant

Labels        == {"control", "variant"}
ConvertedVals == {0, 1}
TimeVals      == {1, 2}
ClickVals     == {1, 2}

Row(g, cv, t, cl) ==
    [group |-> g, converted |-> cv, time_spent |-> t, clicks |-> cl,
     session_count |-> 1]

\* the non-decreasing lists of m values of S: a column, up to the order of rows
SortedColumns(S, m) ==
    { s \in [1..m -> S] : \A i \in 1..(m - 1) : s[i] <= s[i + 1] }

\* the row lists of one group label, of n rows.  No core function reads the
\* order of the rows or relates two columns of a row, so each column is
\* drawn up to the order of its values.
GroupRows(g, n) ==
    { [i \in 1..n |-> Row(g, cv[i], t[i], cl[i])] :
        cv \in SortedColumns(ConvertedVals, n),
        t  \in SortedColumns(TimeVals, n),
        cl \in SortedColumns(ClickVals, n) }

OtherRow == Row("holdout", 1, 2, 2)

OtherRows(n) == [i \in 1..n |-> OtherRow]

DatasetSizes ==
    { s \in (0..MaxRows) \X (0..MaxRows) \X (0..MaxOther) :
        s[1] + s[2] + s[3] <= MaxRows }

Datasets ==
    UNION { { c \o v \o OtherRows(s[3]) :
                c \in GroupRows("control", s[1]), v \in GroupRows("variant", s[2]) }
            : s \in DatasetSizes }

\* df[df["group"] == g]
Filter(d, g) == SelectSeq(d, LAMBDA r : r.group = g)

RECURSIVE SeqSum(_)
SeqSum(s) == IF s = <<>> THEN 0 ELSE Head(s) + SeqSum(Tail(s))

Column(rows, c) == [i \in 1..Len(rows) |-> rows[i][c]]

\* Series.sum()
ColSum(rows, c) == SeqSum(Column(rows, c))

\* sum of squares of a column
ColSumSq(rows, c) == SeqSum([i \in 1..Len(rows) |-> rows[i][c] * rows[i][c]])

\* round(Series.mean(), 4) in 1/10000: NaN for an empty series
RoundedMean(rows, c) ==
    IF Len(rows) = 0 THEN NaN
    ELSE Num(RoundDiv(ColSum(rows, c) * 10000, Len(rows)))

\* round(variant[c].mean() - control[c].mean(), 4) in 1/10000
RoundedMeanDiff(control, variant, c) ==
    IF Len(control) = 0 \/ Len(variant) = 0 THEN NaN
    ELSE Num(RoundDiv((ColSum(variant, c) * Len(control)
                         - ColSum(control, c) * Len(variant)) * 10000,
                      Len(control) * Len(variant)))

GroupSummary(rows) ==
    [n_users           |-> Len(rows),
     conversion_rate   |-> RoundedMean(rows, "converted"),
     avg_time_spent    |-> RoundedMean(rows, "time_spent"),
     avg_clicks        |-> RoundedMean(rows, "clicks"),
     avg_session_count |-> RoundedMean(rows, "session_count"),
     total_conversions |-> ColSum(rows, "converted")]

\* business_insights.compute_metrics_summary: the mean of an empty group is
\* NaN, and nothing is raised
compute_metrics_summary(d) ==
    LET control == Filter(d, "control")
        variant == Filter(d, "variant")
    IN  [control |-> GroupSummary(control),
         variant |-> GroupSummary(variant),
         differences |->
            [conversion_rate_diff |-> RoundedMeanDiff(control, variant, "converted"),
             time_spent_diff      |-> RoundedMeanDiff(control, variant, "time_spent"),
             clicks_diff          |-> RoundedMeanDiff(control, variant, "clicks")]]

----------------------------------------------------------------------------
(* hypothesis_tests                                                        *)
(* Units: a raw statistic in 1/1000000, a reported statistic (4 decimals)  *)
(* in 1/10000; p-values and alpha in 1/10000000, so that a raw p-value has *)
(* one decimal more than the 6 the report keeps.                           *)
(* The distribution functions of scipy and statsmodels are not code of the *)
(* repository: for a finite non-zero statistic, its size and p-value are   *)
(* one of the pairs of LibOutcomes; the sign, the zero and the NaN and     *)
(* infinite cases are computed from the data as the library computes them. *)

\* alpha = 0.05, the default of every test
Alpha == 500000

POne == 10000000    \* the p-value 1.0

LibOutcomes ==
    { [stat |-> 1000000, p |-> 3173105],     \* |z| = 1.0: p = 0.3173105
      [stat |-> 1959966, p |-> 499998] }     \* p = 0.0499998, just below alpha

\* round(x, 4) of a raw statistic
Round4Stat(x) == IF IsNum(x) THEN Num(RoundDiv(x.v, 100)) ELSE x

\* round(p, 6) of a raw p-value, kept in 1/10000000
Round6P(x) == IF IsNum(x) THEN Num(RoundDiv(x.v, 10) * 10) ELSE x

\* statsmodels.stats.proportion.proportions_ztest(count, nobs): the numpy
\* division by a zero standard error gives NaN and raises nothing
sm_proportions_ztest(c1, c2, n1, n2, lib) ==
    IF n1 = 0 \/ n2 = 0 THEN [z |-> NaN, p |-> NaN]
    ELSE IF c1 + c2 = 0 \/ c1 + c2 = n1 + n2 THEN [z |-> NaN, p |-> NaN]
    ELSE IF c1 * n2 = c2 * n1 THEN [z |-> Num(0), p |-> Num(POne)]
    ELSE [z |-> Num(Sign(c1 * n2 - c2 * n1) * lib.stat), p |-> Num(lib.p)]

\* lines 12-23: the fallback proportions_ztest, "z = ... if se > 0 else 0.0"
fallback_proportions_ztest(c1, c2, n1, n2, lib) ==
    IF n1 = 0 /\ n2 = 0 THEN [z |-> Num(0), p |-> Num(POne)]     \* se is NaN
    ELSE IF n1 = 0 \/ n2 = 0
    THEN IF c1 + c2 = 0 \/ c1 + c2 = n1 + n2
         THEN [z |-> Num(0), p |-> Num(POne)]                    \* se is NaN
         ELSE [z |-> NaN, p |-> NaN]                             \* se is inf
    ELSE IF c1 + c2 = 0 \/ c1 + c2 = n1 + n2
    THEN [z |-> Num(0), p |-> Num(POne)]                         \* se is 0
    ELSE IF c1 * n2 = c2 * n1 THEN [z |-> Num(0), p |-> Num(POne)]
    ELSE [z |-> Num(Sign(c1 * n2 - c2 * n1) * lib.stat), p |-> Num(lib.p)]

proportions_ztest(b, c1, c2, n1, n2, lib) ==
    IF b = "statsmodels" THEN sm_proportions_ztest(c1, c2, n1, n2, lib)
    ELSE fallback_proportions_ztest(c1, c2, n1, n2, lib)

\* ((rate_v - rate_c) / rate_c) * 100 on numpy floats, in 1/100 percent
ZtestUplift(conv_c, n_c, conv_v, n_v) ==
    IF n_c = 0 \/ n_v = 0 THEN NaN
    ELSE IF conv_c = 0 THEN (IF conv_v = 0 THEN NaN ELSE Inf(1))
    ELSE Num(RoundDiv((conv_v * n_c - conv_c * n_v) * 10000, conv_c * n_v))

TestResult(metric, test_type, statistic, p_value, significant, alpha, interpretation) ==
    [metric |-> metric, test_type |-> test_type, statistic |-> statistic,
     p_value |-> p_value, significant |-> significant, alpha |-> alpha,
     interpretation |-> interpretation]

\* lines 39-83
two_proportion_ztest(b, d, alpha, lib) ==
    LET control == Filter(d, "control")
        variant == Filter(d, "variant")
        n_c     == Len(control)
        n_v     == Len(variant)
        conv_c  == ColSum(control, "converted")
        conv_v  == ColSum(variant, "converted")
        zp      == proportions_ztest(b, conv_v, conv_c, n_v, n_c, lib)
        significant == FLt(zp.p, Num(alpha))
        uplift  == ZtestUplift(conv_c, n_c, conv_v, n_v)
    IN  TestResult("conversion_rate", "Two-Proportion Z-Test",
                   Round4Stat(zp.z), Round6P(zp.p), significant, alpha,
                   [text |-> "conversion", value |-> uplift,
                    significant |-> significant])

\* n * (n - 1) * Series.var(ddof=1) of a column with n >= 2 values:
\* n * sum(x^2) - sum(x)^2, zero exactly when all the values are equal
VarNum(rows, c) == Len(rows) * ColSumSq(rows, c) - ColSum(rows, c) * ColSum(rows, c)

\* the sign of mean(a) - mean(b), both non-empty
MeanDiffSign(a, b, c) == Sign(ColSum(a, c) * Len(b) - ColSum(b, c) * Len(a))

\* scipy.stats.ttest_ind(a, b, equal_var=False): t = (mean(a) - mean(b)) / se.
\* An empty or one-element sample gives NaN; with zero variance in both
\* samples se is 0 and t is NaN (equal means) or infinite, with p = 0.
ttest_ind(a, b, c, lib) ==
    IF Len(a) < 2 \/ Len(b) < 2 THEN [t |-> NaN, p |-> NaN]
    ELSE IF VarNum(a, c) = 0 /\ VarNum(b, c) = 0
    THEN IF MeanDiffSign(a, b, c) = 0 THEN [t |-> NaN, p |-> NaN]
         ELSE [t |-> Inf(MeanDiffSign(a, b, c)), p |-> Num(0)]
    ELSE IF MeanDiffSign(a, b, c) = 0 THEN [t |-> Num(0), p |-> Num(POne)]
    ELSE [t |-> Num(MeanDiffSign(a, b, c) * lib.stat), p |-> Num(lib.p)]

\* lines 86-121: the samples are passed control first, variant second
independent_ttest(d, metric, alpha, lib) ==
    LET control_vals == Filter(d, "control")
        variant_vals == Filter(d, "variant")
        tp           == ttest_ind(control_vals, variant_vals, metric, lib)
        significant  == FLt(tp.p, Num(alpha))
    IN  TestResult(metric, "Independent T-Test (Welch)",
                   Round4Stat(tp.t), Round6P(tp.p), significant, alpha,
                   [text |-> metric,
                    value |-> RoundedMeanDiff(control_vals, variant_vals, metric),
                    significant |-> significant])

\* run_all_tests with the clicks entry computed from the time_spent column
run_all_tests_ClicksFromTimeSpent(b, d, alpha, lib) ==
    LET conv_result   == two_proportion_ztest(b, d, alpha, lib.conversion_rate)
        time_result   == independent_ttest(d, "time_spent", alpha, lib.time_spent)
        clicks_result == independent_ttest(d, "time_spent", alpha, lib.clicks)
    IN  [conversion_rate |-> conv_result,
         time_spent      |-> time_result,
         clicks          |-> clicks_result]

\* lines 124-134: lib gives the library outcome of each of the three tests
run_all_tests(b, d, alpha, lib) ==
    LET conv_result   == two_proportion_ztest(b, d, alpha, lib.conversion_rate)
        time_result   == independent_ttest(d, "time_spent", alpha, lib.time_spent)
        clicks_result == independent_ttest(d, "clicks", alpha, lib.clicks)
    IN  [conversion_rate |-> conv_result,
         time_spent      |-> time_result,
         clicks          |-> clicks_result]

LibChoices == [conversion_rate : LibOutcomes, time_spent : LibOutcomes, clicks : LibOutcomes]

----------------------------------------------------------------------------
(* confidence_intervals                                                    *)
(* Units: a standard error and a critical value in 1/1000, so a margin     *)
(* (critical value times standard error) in 1/1000000; the proportion      *)
(* interval is reported in 1/1000000 (6 decimals), a mean interval in      *)
(* 1/10000 (4 decimals).                                                   *)

\* the largest r in lo..hi with r * r <= n (lo * lo <= n < (hi + 1)^2)
RECURSIVE SqrtBetween(_, _, _)
SqrtBetween(n, lo, hi) ==
    IF lo >= hi THEN lo
    ELSE LET mid == (lo + hi + 1) \div 2
         IN  IF mid * mid <= n THEN SqrtBetween(n, mid, hi)
             ELSE SqrtBetween(n, lo, mid - 1)

\* floor(sqrt(n)), 0 <= n < 2^30
ISqrt(n) == SqrtBetween(n, 0, 32767)

\* floor(1000 * sqrt(num / den)), num >= 0, den > 0: numpy.sqrt to 3 decimals
Sqrt1000(num, den) == ISqrt((num * 1000000) \div den)

\* scipy.stats.norm.ppf(1 - (1 - 0.95) / 2) = 1.959964, in 1/1000
ZCrit95 == 1960

\* scipy.stats.t.ppf(0.975, df) in 1/1000, by the whole part of df = num / den
TCrit95(num, den) ==
    LET k == num \div den
    IN  CASE k <= 1 -> 12706
          [] k = 2  -> 4303
          [] k = 3  -> 3182
          [] k = 4  -> 2776
          [] k = 5  -> 2571
          [] k = 6  -> 2447
          [] k = 7  -> 2365
          [] OTHER  -> 2306

\* lines 9-38
ci_difference_proportions(d, confidence) ==
    LET control == Filter(d, "control")
        variant == Filter(d, "variant")
        n_c == Len(control)
        n_v == Len(variant)
        k_c == ColSum(control, "converted")
        k_v == ColSum(variant, "converted")
        \* diff = p_v - p_c  =  diffN / (n_c * n_v)
        diffN == k_v * n_c - k_c * n_v
        \* se^2 = p_c (1 - p_c) / n_c + p_v (1 - p_v) / n_v  =  seN / seD
        seN == k_c * (n_c - k_c) * n_v * n_v * n_v + k_v * (n_v - k_v) * n_c * n_c * n_c
        seD == n_c * n_c * n_c * n_v * n_v * n_v
        margin == ZCrit95 * Sqrt1000(seN, seD)
        \* round(x, 6) of x = diff + s * z * se
        Bound(s) == Num(RoundDiv(diffN * 1000000 + s * margin * n_c * n_v, n_c * n_v))
    IN  IF n_c = 0 \/ n_v = 0
        THEN [metric |-> "conversion_rate_difference", lower |-> NaN, upper |-> NaN,
              point_estimate |-> NaN, confidence_level |-> confidence]
        ELSE [metric |-> "conversion_rate_difference",
              lower |-> Bound(-1), upper |-> Bound(1),
              point_estimate |-> Bound(0), confidence_level |-> confidence]

\* lines 41-75: var(ddof=1) of a one-element sample is NaN; with zero variance
\* in both samples df_welch is 0 / 0 = NaN, and so is the critical value
ci_difference_means(d, metric, confidence) ==
    LET control_vals == Filter(d, "control")
        variant_vals == Filter(d, "variant")
        n_c == Len(control_vals)
        n_v == Len(variant_vals)
        name == IF metric = "time_spent" THEN "time_spent_difference"
                ELSE "clicks_difference"
        diff == RoundedMeanDiff(control_vals, variant_vals, metric)
        \* var_c / n_c = a / p,   var_v / n_v = b / q
        a == VarNum(control_vals, metric)
        p == n_c * n_c * (n_c - 1)
        b == VarNum(variant_vals, metric)
        q == n_v * n_v * (n_v - 1)
        \* se^2 = a / p + b / q
        seN == a * q + b * p
        seD == p * q
        \* df_welch = (a/p + b/q)^2 / ((a/p)^2 / (n_c - 1) + (b/q)^2 / (n_v - 1))
        dfN == seN * seN * (n_c - 1) * (n_v - 1)
        dfD == a * a * q * q * (n_v - 1) + b * b * p * p * (n_c - 1)
        margin == TCrit95(dfN, dfD) * Sqrt1000(seN, seD)
        \* mean_v - mean_c = diffN / (n_c * n_v)
        diffN == ColSum(variant_vals, metric) * n_c - ColSum(control_vals, metric) * n_v
        \* round(x, 4) of x = diff + s * t_crit * se
        Bound(s) == Num(RoundDiv(diffN * 1000000 + s * margin * n_c * n_v,
                                 100 * n_c * n_v))
    IN  IF n_c = 0 \/ n_v = 0
        THEN [metric |-> name, lower |-> NaN, upper |-> NaN,
              point_estimate |-> NaN, confidence_level |-> confidence]
        ELSE IF n_c = 1 \/ n_v = 1 \/ (a = 0 /\ b = 0)
        THEN [metric |-> name, lower |-> NaN, upper |-> NaN,
              point_estimate |-> diff, confidence_level |-> confidence]
        ELSE [metric |-> name,
              lower |-> Bound(-1), upper |-> Bound(1),
              point_estimate |-> Bound(0), confidence_level |-> confidence]

\* lines 78-84
compute_all_cis(d, confidence) ==
    [conversion_rate |-> ci_difference_proportions(d, confidence),
     time_spent      |-> ci_difference_means(d, "time_spent", confidence),
     clicks          |-> ci_difference_means(d, "clicks", confidence)]

----------------------------------------------------------------------------
(* power_analysis                                                          *)
(* A call returns Ok(value) or raises: Raise(error).                       *)
(* Units: effect sizes in 1/10000, the uplift in 1/100 percent.            *)
(* A proportion or a mean passed as a float is held as the exact fraction  *)
(* it was computed from: Frac(n, d) = n / d, or NaN.                        *)

NoValue  == [none |-> TRUE]
Ok(v)    == [ok |-> TRUE, val |-> v, err |-> "none"]
Raise(e) == [ok |-> FALSE, val |-> NoValue, err |-> e]

Frac(n, d) == [k |-> "num", n |-> n, d |-> d]
FracNaN    == [k |-> "nan", n |-> 0, d |-> 1]

\* Series.mean() as an exact fraction
Mean(rows, c) == IF Len(rows) = 0 THEN FracNaN ELSE Frac(ColSum(rows, c), Len(rows))

\* power = 0.80, the default target power, in 1/10000
Power80 == 8000

\* (norm.ppf(1 - 0.05 / 2) + norm.ppf(0.80))^2 = 7.848880, in 1/1000
ZSumSq == 7849

\* 2 * arcsin(sqrt(n / d)) in 1/10000
TwoArcsinSqrt(n, d) ==
    CASE n = 0         -> 0
      [] n = d         -> 31416
      [] 2 * n = d     -> 15708
      [] 3 * n = d     -> 12310
      [] 3 * n = 2 * d -> 19106
      [] 4 * n = d     -> 10472
      [] 4 * n = 3 * d -> 20944
      [] 5 * n = d     -> 9273
      [] 5 * n = 2 * d -> 13694
      [] 5 * n = 3 * d -> 17722
      [] 5 * n = 4 * d -> 22143
      [] n = 20001 /\ d = 20002 -> 31275
      [] OTHER         -> (31416 * n) \div d

\* p is a number of [0, 1]: outside, np.sqrt or np.arcsin gives NaN
InUnit(p) == ~IsNaN(p) /\ 0 <= p.n /\ p.n <= p.d

\* lines 36-38
effect_size_proportions(p1, p2) ==
    IF ~InUnit(p1) \/ ~InUnit(p2) THEN NaN
    ELSE Num(Abs(TwoArcsinSqrt(p2.n, p2.d) - TwoArcsinSqrt(p1.n, p1.d)))

\* lines 31-33: the uplift in percent, as an exact fraction
conversion_uplift(p_control, p_variant) ==
    IF IsNaN(p_control) \/ p_control.n <= 0 THEN Frac(0, 1)
    ELSE IF IsNaN(p_variant) THEN FracNaN
    ELSE Frac((p_variant.n * p_control.d - p_control.n * p_variant.d) * 100,
              p_control.n * p_variant.d)

\* round(x, 2) of a fraction, in 1/100
Round2(x) == IF IsNaN(x) THEN NaN ELSE Num(RoundDiv(x.n * 100, x.d))

\* NormalIndPower().solve_power(effect_size=h, alpha=0.05, power=0.80): the
\* real-valued sample size as the fraction num / den, "inf", or an error.
\* statsmodels refuses an effect size of 0 and solves n = 2 ((za + zb) / h)^2;
\* with a NaN effect size its root finder gives up: it raises (nan_raises) or
\* returns its start value.  The fallback (lines 8-13) has no factor 2.
NormalIndPower_solve_power(b, h, nan_raises) ==
    IF b = "statsmodels"
    THEN IF IsNaN(h)
         THEN (IF nan_raises THEN Raise("RuntimeError") ELSE Ok(Frac(100, 1)))
         ELSE IF h.v = 0 THEN Raise("ValueError: effect size 0")
         ELSE Ok(Frac(2 * ZSumSq * 100000, h.v * h.v))
    ELSE IF IsNum(h) /\ h.v > 0 THEN Ok(Frac(ZSumSq * 100000, h.v * h.v))
         ELSE Ok(Inf(1))

\* int(np.ceil(required_n)): a float infinity cannot be converted
IntCeil(x) ==
    IF x.k = "inf" THEN Raise("OverflowError")
    ELSE IF x.k = "nan" THEN Raise("ValueError: NaN to integer")
    ELSE Ok(CeilDiv(x.n, x.d))

\* lines 41-59
power_analysis_conversion(b, p_control, p_variant, alpha, power, nan_raises) ==
    LET effect_h   == effect_size_proportions(p_control, p_variant)
        required_n == NormalIndPower_solve_power(b, effect_h, nan_raises)
        size       == IF required_n.ok THEN IntCeil(required_n.val) ELSE required_n
    IN  IF ~size.ok THEN size
        ELSE Ok([test |-> "Two-Proportion Z-Test",
                 effect_size_h |-> effect_h,
                 required_sample_size_per_group |-> size.val,
                 alpha |-> alpha, power |-> power])

\* lines 25-28 on the columns the means and stds are taken from, as the
\* fraction d^2 = num / den: std() of fewer than 2 values is NaN, then
\* pooled_std is NaN and "pooled_std > 0" is false
cohens_d_sq(control, variant, c) ==
    LET n_c == Len(control)
        n_v == Len(variant)
        a   == VarNum(control, c)
        v   == VarNum(variant, c)
        dN  == ColSum(variant, c) * n_c - ColSum(control, c) * n_v
    IN  IF n_c < 2 \/ n_v < 2 THEN Frac(0, 1)
        ELSE IF a = 0 /\ v = 0 THEN Frac(0, 1)
        ELSE Frac(2 * dN * dN * (n_c - 1) * (n_v - 1),
                  n_c * n_v * (a * n_v * (n_v - 1) + v * n_c * (n_c - 1)))

\* mean2 - mean1 on floats
FloatDiff(mean1, mean2) ==
    IF IsNaN(mean1) \/ IsNaN(mean2) THEN NaN
    ELSE IF mean1.k = "inf" /\ mean2.k = "inf"
    THEN (IF mean1.v = mean2.v THEN NaN ELSE Inf(mean2.v))
    ELSE IF mean2.k = "inf" THEN Inf(mean2.v)
    ELSE IF mean1.k = "inf" THEN Inf(-mean1.v)
    ELSE Num(mean2.v - mean1.v)

\* abs(x) on floats
FloatAbs(x) ==
    IF IsNaN(x) THEN NaN ELSE IF x.k = "inf" THEN Inf(1) ELSE Num(Abs(x.v))

\* "pooled_std > 0" of pooled_std = np.sqrt((std1 ** 2 + std2 ** 2) / 2):
\* "nan" (the comparison is false), "inf", "zero" or "num"
PooledStd(std1, std2) ==
    IF IsNaN(std1) \/ IsNaN(std2) THEN "nan"
    ELSE IF std1.k = "inf" \/ std2.k = "inf" THEN "inf"
    ELSE IF std1.v = 0 /\ std2.v = 0 THEN "zero"
    ELSE "num"

\* x / pooled_std in 1/10000, for x the difference of the means, signed
OverPooledStd(x, std1, std2) ==
    IF IsNaN(x) THEN NaN
    ELSE IF PooledStd(std1, std2) = "inf"
    THEN (IF x.k = "inf" THEN NaN ELSE Num(0))
    ELSE IF x.k = "inf" THEN x
    ELSE Num(Sign(x.v) * 10 * Sqrt1000(2 * x.v * x.v,
                                       std1.v * std1.v + std2.v * std2.v))

\* cohens_d without the abs(): the signed standardized difference
cohens_d_Signed(mean1, mean2, std1, std2) ==
    IF PooledStd(std1, std2) \in {"nan", "zero"} THEN Num(0)
    ELSE OverPooledStd(FloatDiff(mean1, mean2), std1, std2)

\* lines 25-28, on floats: means and stds in one unit, the result in 1/10000
cohens_d(mean1, mean2, std1, std2) ==
    IF PooledStd(std1, std2) \in {"nan", "zero"} THEN Num(0)
    ELSE OverPooledStd(FloatAbs(FloatDiff(mean1, mean2)), std1, std2)

\* TTestIndPower().solve_power(effect_size=d, ...): 2 ((za + zb) / d)^2 (the
\* fallback, lines 15-19; statsmodels solves the same equation with the
\* noncentral t distribution and refuses an effect size of 0)
TTestIndPower_solve_power(b, d2) ==
    IF d2.n = 0
    THEN (IF b = "statsmodels" THEN Raise("ValueError: effect size 0") ELSE Ok(Inf(1)))
    ELSE Ok(Frac(2 * ZSumSq * d2.d, 1000 * d2.n))

\* lines 62-83
power_analysis_ttest(b, control, variant, metric, alpha, power) ==
    LET d2         == cohens_d_sq(control, variant, metric)
        required_n == TTestIndPower_solve_power(b, d2)
        size       == IF required_n.ok THEN IntCeil(required_n.val) ELSE required_n
    IN  IF ~size.ok THEN size
        ELSE Ok([test |-> <<"Independent T-Test", metric>>,
                 cohens_d |-> Num(10 * Sqrt1000(d2.n, d2.d)),
                 required_sample_size_per_group |-> size.val,
                 alpha |-> alpha, power |-> power])

\* run_power_analysis with a handler around each per-metric analysis that
\* puts a default in the place of a result that could not be computed
run_power_analysis_Defaults(b, d, alpha, nan_raises) ==
    LET control      == Filter(d, "control")
        variant      == Filter(d, "variant")
        p_c          == Mean(control, "converted")
        p_v          == Mean(variant, "converted")
        Default(m)   == [test |-> m, required_sample_size_per_group |-> 0,
                         alpha |-> alpha, power |-> Power80]
        OrDefault(res, m) == IF res.ok THEN res.val ELSE Default(m)
    IN  Ok([conversion_rate |->
                OrDefault(power_analysis_conversion(b, p_c, p_v, alpha, Power80,
                                                    nan_raises), "conversion_rate"),
            time_spent |->
                OrDefault(power_analysis_ttest(b, control, variant, "time_spent",
                                               alpha, Power80), "time_spent"),
            clicks |->
                OrDefault(power_analysis_ttest(b, control, variant, "clicks",
                                               alpha, Power80), "clicks"),
            conversion_uplift_pct |-> Round2(conversion_uplift(p_c, p_v)),
            actual_sample_size_per_group |-> Len(control)])

\* lines 96-118 of run_power_analysis, given the outcomes of the three
\* per-metric analyses: the first error raised propagates, otherwise the
\* report is built with the uplift rounded to two decimals
PowerReport(conv_power, time_power, clicks_power, p_c, p_v, n_control) ==
    IF ~conv_power.ok THEN conv_power
    ELSE IF ~time_power.ok THEN time_power
    ELSE IF ~clicks_power.ok THEN clicks_power
    ELSE Ok([conversion_rate |-> conv_power.val,
             time_spent      |-> time_power.val,
             clicks          |-> clicks_power.val,
             conversion_uplift_pct |-> Round2(conversion_uplift(p_c, p_v)),
             actual_sample_size_per_group |-> n_control])

\* lines 86-118: the first error raised by a per-metric analysis propagates
run_power_analysis(b, d, alpha, nan_raises) ==
    LET control      == Filter(d, "control")
        variant      == Filter(d, "variant")
        p_c          == Mean(control, "converted")
        p_v          == Mean(variant, "converted")
        conv_power   == power_analysis_conversion(b, p_c, p_v, alpha, Power80, nan_raises)
        time_power   == power_analysis_ttest(b, control, variant, "time_spent", alpha, Power80)
        clicks_power == power_analysis_ttest(b, control, variant, "clicks", alpha, Power80)
    IN  PowerReport(conv_power, time_power, clicks_power, p_c, p_v, Len(control))

----------------------------------------------------------------------------
(* The core of an analysis run (main.run_analysis, lines 113-118): the     *)
(* five analyses in order; the first error raised ends the run.            *)

\* confidence = 0.95, in 1/10000
Confidence95 == 9500

core_analysis(b, d, lib, nan_raises) ==
    LET metrics == compute_metrics_summary(d)
        tests   == run_all_tests(b, d, Alpha, lib)
        cis     == compute_all_cis(d, Confidence95)
        power   == run_power_analysis(b, d, Alpha, nan_raises)
    IN  IF ~power.ok THEN power
        ELSE Ok([metrics_summary      |-> metrics,
                 hypothesis_tests     |-> tests,
                 confidence_intervals |-> cis,
                 power_analysis       |-> power.val,
                 business_insights    |->
                     generate_business_insights(metrics, tests, power.val)])

----------------------------------------------------------------------------
(* Direct calls of the core functions.  Init draws the inputs; each action *)
(* applies one function to them and records what it returned.              *)

Builds == {"statsmodels", "fallback"}

NoArgs == [none |-> TRUE]

\* the conversion_uplift_pct values a call of generate_business_insights is given
UpliftInputs ==
    {Num(-2333), Num(-1), Num(0), Num(1), Num(499), Num(500), Num(501), Num(2333), NaN}

MetricsInputs ==
    { [control |-> [conversion_rate |-> Num(1200)],
       variant |-> [conversion_rate |-> Num(1480)],
       differences |-> [time_spent_diff |-> Num(t), clicks_diff |-> Num(7049)]]
      : t \in {-5000, 14050} }

InsightsInputs ==
    [metrics : MetricsInputs,
     test_results : [conversion_rate : [significant : BOOLEAN],
                     time_spent      : [significant : BOOLEAN],
                     clicks          : [significant : BOOLEAN]],
     power : [conversion_uplift_pct : UpliftInputs]]

\* no service is running
NoService ==
    /\ library = NoValue
    /\ files = <<>>
    /\ reqs = <<>>
    /\ rng = 0
    /\ cwd = "started"
    /\ started = <<>>

InitInsights ==
    /\ build \in {"statsmodels"}
    /\ df = <<>>
    /\ args \in InsightsInputs
    /\ call = "none"
    /\ ret = NoValue
    /\ earlier = NoValue
    /\ NoService

CallInsights ==
    /\ call = "none"
    /\ args # NoArgs
    /\ call' = "generate_business_insights"
    /\ ret' = Ok(generate_business_insights(args.metrics, args.test_results, args.power))
    /\ UNCHANGED <<build, df, args, service, earlier>>

\* a further call, with any arguments.  The function keeps nothing between
\* two calls: it reads its three arguments only.
CallInsightsAgain ==
    /\ call = "generate_business_insights"
    /\ \E a \in InsightsInputs :
          /\ args' = a
          /\ ret' = Ok(generate_business_insights(a.metrics, a.test_results, a.power))
    /\ earlier' \in IF earlier = NoValue
                     THEN {NoValue, [args |-> args, ret |-> ret]}
                     ELSE {earlier}
    /\ UNCHANGED <<build, df, call, service>>

NextInsights == CallInsights \/ CallInsightsAgain

SpecInsights == InitInsights /\ [][NextInsights]_vars

InitStats ==
    /\ build \in Builds
    /\ df \in Datasets
    /\ args = NoArgs
    /\ call = "none"
    /\ ret = NoValue
    /\ earlier = NoValue
    /\ NoService

Returns(f, r) ==
    /\ call = "none"
    /\ args = NoArgs
    /\ call' = f
    /\ ret' = r
    /\ UNCHANGED <<build, df, args, service, earlier>>

CallComputeMetricsSummary ==
    Returns("compute_metrics_summary", Ok(compute_metrics_summary(df)))

CallTwoProportionZtest ==
    \E lib \in LibOutcomes :
        Returns("two_proportion_ztest", Ok(two_proportion_ztest(build, df, Alpha, lib)))

CallIndependentTtest ==
    \E metric \in {"time_spent", "clicks"}, lib \in LibOutcomes :
        Returns("independent_ttest", Ok(independent_ttest(df, metric, Alpha, lib)))

CallRunAllTests ==
    \E lib \in LibChoices :
        Returns("run_all_tests", Ok(run_all_tests(build, df, Alpha, lib)))

\* confidence_intervals imports statsmodels unconditionally (line 7)
CallComputeAllCis ==
    /\ build = "statsmodels"
    /\ Returns("compute_all_cis", Ok(compute_all_cis(df, Confidence95)))

CallPowerAnalysisConversion ==
    \E nan_raises \in BOOLEAN :
        Returns("power_analysis_conversion",
                power_analysis_conversion(build,
                    Mean(Filter(df, "control"), "converted"),
                    Mean(Filter(df, "variant"), "converted"),
                    Alpha, Power80, nan_raises))

CallPowerAnalysisTtest ==
    \E metric \in {"time_spent", "clicks"} :
        Returns("power_analysis_ttest",
                power_analysis_ttest(build, Filter(df, "control"),
                    Filter(df, "variant"), metric, Alpha, Power80))

CallConversionUplift ==
    Returns("conversion_uplift",
            Ok(conversion_uplift(Mean(Filter(df, "control"), "converted"),
                                 Mean(Filter(df, "variant"), "converted"))))

CallRunPowerAnalysis ==
    \E nan_raises \in BOOLEAN :
        Returns("run_power_analysis", run_power_analysis(build, df, Alpha, nan_raises))

\* main.py imports every module: the service runs only with statsmodels
CallCoreAnalysis ==
    /\ build = "statsmodels"
    /\ \E lib \in LibChoices, nan_raises \in BOOLEAN :
          Returns("core_analysis", core_analysis(build, df, lib, nan_raises))

NextStats ==
    \/ CallComputeMetricsSummary
    \/ CallTwoProportionZtest
    \/ CallIndependentTtest
    \/ CallRunAllTests
    \/ CallComputeAllCis
    \/ CallPowerAnalysisConversion
    \/ CallPowerAnalysisTtest
    \/ CallConversionUplift
    \/ CallRunPowerAnalysis
    \/ CallCoreAnalysis

SpecStats == InitStats /\ [][NextStats]_vars

----------------------------------------------------------------------------
(* Direct calls of the effect-size functions of power_analysis on floats.  *)

MaxInput == 2      \* the means and stds drawn are NaN, +-infinity and -1..MaxInput

FloatInputs == {NaN, Inf(1), Inf(-1)} \cup { Num(i) : i \in -1..MaxInput }

\* proportions inside and outside [0, 1], and NaN
ProportionInputs ==
    {FracNaN, Frac(-1, 2), Frac(0, 1), Frac(1, 4), Frac(1, 2), Frac(3, 4),
     Frac(1, 1), Frac(3, 2)}

EffectInputs ==
    [mean1 : FloatInputs, mean2 : FloatInputs, std1 : FloatInputs, std2 : FloatInputs]
        \cup [p1 : ProportionInputs, p2 : ProportionInputs]

InitEffect ==
    /\ build \in Builds
    /\ df = <<>>
    /\ args \in EffectInputs
    /\ call = "none"
    /\ ret = NoValue
    /\ earlier = NoValue
    /\ NoService

CallCohensD ==
    /\ call = "none"
    /\ "mean1" \in DOMAIN args
    /\ call' = "cohens_d"
    /\ ret' = Ok(cohens_d(args.mean1, args.mean2, args.std1, args.std2))
    /\ UNCHANGED <<build, df, args, service, earlier>>

CallEffectSizeProportions ==
    /\ call = "none"
    /\ "p1" \in DOMAIN args
    /\ call' = "effect_size_proportions"
    /\ ret' = Ok(effect_size_proportions(args.p1, args.p2))
    /\ UNCHANGED <<build, df, args, service, earlier>>

NextEffect == CallCohensD \/ CallEffectSizeProportions

SpecEffect == InitEffect /\ [][NextEffect]_vars

----------------------------------------------------------------------------
(* run_power_analysis followed by generate_business_insights on datasets   *)
(* of any size.  A dataset is given by what the two functions read of it:  *)
(* the size and the number of conversions of each group, the outcome of    *)
(* the power analysis of each engagement metric, and the test results.     *)

\* groups of 2 users, a control group of 20,002 users with 20,001
\* conversions and a variant group of 100,000 users who all converted
\* (z = 2.236, p = 0.025 for this pair)
GroupCounts ==
    { [converted |-> c, n |-> 2] : c \in 0..2 }
        \cup { [converted |-> 20001, n |-> 20002],
               [converted |-> 100000, n |-> 100000] }

\* power_analysis_ttest of an engagement metric: a result, or the error
\* statsmodels raises for an effect size of 0
EngagementPowers(metric) ==
    { Ok([test |-> <<"Independent T-Test", metric>>,
          cohens_d |-> Num(14140),
          required_sample_size_per_group |-> 8,
          alpha |-> Alpha, power |-> Power80]),
      Raise("ValueError: effect size 0") }

PipelineInputs ==
    [control      : GroupCounts,
     variant      : GroupCounts,
     time_power   : EngagementPowers("time_spent"),
     clicks_power : EngagementPowers("clicks"),
     test_results : [conversion_rate : [significant : BOOLEAN],
                     time_spent      : [significant : BOOLEAN],
                     clicks          : [significant : BOOLEAN]]]

\* df[df["group"] == g]["converted"].mean() (power_analysis.py lines 93-94)
ConversionRate(g) == Frac(g.converted, g.n)

\* the part of the metrics summary generate_business_insights reads
\* (business_insights.py lines 21, 30-33): rates rounded to 4 decimals
PipelineMetrics(a) ==
    [control |-> [conversion_rate |-> Num(RoundDiv(a.control.converted * 10000, a.control.n))],
     variant |-> [conversion_rate |-> Num(RoundDiv(a.variant.converted * 10000, a.variant.n))],
     differences |-> [time_spent_diff |-> Num(14050), clicks_diff |-> Num(7049)]]

\* run_power_analysis, then generate_business_insights on its result
Pipeline(b, a, nan_raises) ==
    LET p_c        == ConversionRate(a.control)
        p_v        == ConversionRate(a.variant)
        conv_power == power_analysis_conversion(b, p_c, p_v, Alpha, Power80, nan_raises)
        power      == PowerReport(conv_power, a.time_power, a.clicks_power,
                                  p_c, p_v, a.control.n)
    IN  IF ~power.ok THEN power
        ELSE Ok([power_analysis    |-> power.val,
                 business_insights |->
                     generate_business_insights(PipelineMetrics(a), a.test_results,
                                                power.val)])

InitPipeline ==
    /\ build \in {"statsmodels"}
    /\ df = <<>>
    /\ args \in PipelineInputs
    /\ call = "none"
    /\ ret = NoValue
    /\ earlier = NoValue
    /\ NoService

CallPipeline ==
    /\ call = "none"
    /\ args # NoArgs
    /\ call' = "run_power_analysis, generate_business_insights"
    /\ ret' = Pipeline(build, args, TRUE)
    /\ UNCHANGED <<build, df, args, service, earlier>>

NextPipeline == CallPipeline

SpecPipeline == InitPipeline /\ [][NextPipeline]_vars

----------------------------------------------------------------------------
(* The service (main.py).  FastAPI runs each "def" handler in a worker     *)
(* thread, so the handlers of requests in flight interleave at every       *)
(* access to what they share: the dataset file, the output files, numpy's  *)
(* global random generator and the working directory.  No handler takes a  *)
(* lock.  A request occupies one slot; a slot serves one request.          *)

MaxRequests == 2      \* requests served in a run of the model

Slots == 1..MaxRequests

\* visualization.generate_all_plots, in the order the plots are saved
PlotNames ==
    <<"conversion_rate_bar.png", "time_spent_distribution.png",
      "clicks_distribution.png", "boxplots.png", "metrics_comparison.png">>

\* report_generator.generate_all_reports, in the order the reports are saved
ReportNames == <<"report.json", "report.txt", "report.pdf">>

OutputNames == PlotNames \o ReportNames

OutputPaths == { OutputNames[i] : i \in 1..Len(OutputNames) }

Paths == {"ab_test_data.csv"} \cup OutputPaths

(* A file.  Every writer opens it with mode "w", which empties it, writes, *)
(* and closes it; nothing orders two writers.  The model keeps whether the *)
(* file holds a complete content and whose: content is <<>> from the       *)
(* moment a writer opened the file until a writer closes it, and <<w>> once *)
(* writer w has closed it (0: the content the service found when it        *)
(* started).  What a writer has written so far of a file it has not closed *)
(* is an incomplete content.                                                *)
NoFile == [exists |-> FALSE, content |-> <<>>, writers |-> {}]

StartFile == [exists |-> TRUE, content |-> <<0>>, writers |-> {}]

\* open(path, "w")
BeginWrite(f, r) ==
    [exists |-> TRUE, content |-> <<>>, writers |-> f.writers \cup {r}]

\* the last write and close()
EndWrite(f, r) ==
    [exists |-> TRUE, content |-> <<r>>, writers |-> f.writers \ {r}]

Complete(f) == f.exists /\ f.content # <<>>

\* the file is there and a reader finds it empty or cut short
Truncated(f) == f.exists /\ f.content = <<>>

(* data_generator.generate_ab_test_data(n_users, seed = 42): seeds numpy's *)
(* global generator and draws the control columns, then the variant        *)
(* columns, from it.  rng counts the draws made since the last seeding; a  *)
(* draw returns the seeded values only at the position it has in an        *)
(* undisturbed call.                                                        *)
ControlDraw(pos) ==
    IF pos = 0
    THEN <<Row("control", 0, 1, 1), Row("control", 1, 2, 2)>>
    ELSE <<Row("control", 1, 1, 2), Row("control", 0, 3, 1)>>

VariantDraw(pos) ==
    IF pos = 1
    THEN <<Row("variant", 1, 2, 2), Row("variant", 1, 3, 3)>>
    ELSE <<Row("variant", 0, 1, 3), Row("variant", 1, 2, 1)>>

\* lines 65-67: pd.concat and the shuffle of df.sample(random_state = seed)
Shuffled(control, variant) ==
    [i \in 1..(Len(control) + Len(variant)) |->
        IF i % 2 = 1 THEN control[(i + 1) \div 2] ELSE variant[i \div 2]]

generate_ab_test_data(draws) == Shuffled(ControlDraw(draws[1]), VariantDraw(draws[2]))

\* what an undisturbed call returns
SeededDataset == generate_ab_test_data(<<0, 1>>)

\* the dataset files the service may find when it starts
StartDatasets ==
    { SeededDataset,
      \* no difference between the groups in any metric
      <<Row("control", 0, 1, 1), Row("variant", 0, 1, 1),
        Row("control", 1, 2, 2), Row("variant", 1, 2, 2)>>,
      \* a third group label
      SeededDataset \o <<OtherRow>>,
      \* one user per group
      <<Row("control", 0, 1, 1), Row("variant", 1, 2, 2)>> }

\* the dataset a writer of the dataset file writes
WrittenBy(w) == IF w = 0 THEN df ELSE reqs[w].df

\* the rows a writer has written when it is half way
FirstPart(d) == SubSeq(d, 1, (Len(d) + 1) \div 2)

\* pd.read_csv(DATASET_PATH) (main.py line 103), the possible outcomes: the
\* rows of a complete file; of a file being written, the rows written so
\* far by a writer, or an error when there is none yet
read_csv(f) ==
    IF Complete(f) THEN { Ok(WrittenBy(f.content[1])) }
    ELSE { Raise("EmptyDataError: No columns to parse from file") }
            \cup { Ok(FirstPart(WrittenBy(w))) : w \in f.writers }

\* visualization.py: what computing plot k raises before it is saved.
\* plot_conversion_rates looks the colour of every label up in COLORS
\* (line 33) and refuses NaN axis limits (line 42); the KDE of
\* plot_time_spent_distribution (line 55) needs two values of non-zero
\* variance in each group.
PlotError(k, d) ==
    LET KdeError(g) ==
            IF Len(Filter(d, g)) < 2
            THEN "ValueError: dataset input should have multiple elements"
            ELSE IF VarNum(Filter(d, g), "time_spent") = 0
            THEN "LinAlgError: singular data covariance matrix"
            ELSE "none"
    IN  IF PlotNames[k] = "conversion_rate_bar.png"
        THEN IF \E i \in 1..Len(d) : d[i].group \notin Labels THEN "KeyError"
             ELSE IF d = <<>> THEN "ValueError: Axis limits cannot be NaN or Inf"
             ELSE "none"
        ELSE IF PlotNames[k] = "time_spent_distribution.png"
        THEN IF KdeError("control") # "none" THEN KdeError("control")
             ELSE KdeError("variant")
        ELSE "none"

\* TestResult.significant is the result of comparing a numpy float
\* (hypothesis_tests.py lines 61 and 101): a numpy.bool_
SignificantType == "numpy.bool_"

\* the types json.dumps encodes without a default
JsonTypes == {"bool", "int", "float", "str", "NoneType", "dict", "list"}

SummaryHasNaN(m) ==
    \E g \in {"control", "variant"} :
        \/ IsNaN(m[g].conversion_rate)
        \/ IsNaN(m[g].avg_time_spent)
        \/ IsNaN(m[g].avg_clicks)

\* JSONResponse(content = report_data) (main.py line 139): json.dumps with
\* allow_nan = False and no default
JSONResponse(content) ==
    IF SummaryHasNaN(content.metrics_summary)
    THEN Raise("ValueError: Out of range float values are not JSON compliant")
    ELSE IF SignificantType \notin JsonTypes
    THEN Raise("TypeError: Object of type bool_ is not JSON serializable")
    ELSE Ok(content)

NoDetail == [prefix |-> "", error |-> ""]

NoResponse == [status |-> 0, detail |-> NoDetail, body |-> NoValue]

HTTPException(status, prefix, error) ==
    [status |-> status, detail |-> [prefix |-> prefix, error |-> error],
     body |-> NoValue]

Response200(body) == [status |-> 200, detail |-> NoDetail, body |-> body]

IdleRequest ==
    [kind  |-> "none",     \* the endpoint requested
     pc    |-> "idle",     \* where its handler is
     k     |-> 0,          \* run-analysis: the output being produced (0: the
                           \* dataset is not loaded)
     df    |-> <<>>,       \* the dataset it generated or loaded
     draws |-> <<>>,       \* generate-data: the generator positions it drew at
     core  |-> NoValue,    \* run-analysis: what the five analyses returned
     torn  |-> {},         \* the files it read while they were incomplete
     resp  |-> NoResponse]

\* the libraries' answers in a run of the service: the outcome of the tests
\* with a finite non-zero statistic, and what solve_power does with NaN
ServiceLibs ==
    [tests : { l \in LibChoices :
                 l.conversion_rate = l.time_spent /\ l.time_spent = l.clicks },
     nan_raises : BOOLEAN]

Init ==
    /\ build = "statsmodels"
    /\ args = NoArgs
    /\ call = "none"
    /\ ret = NoValue
    /\ earlier = NoValue
    /\ library \in ServiceLibs
    /\ \/ /\ df \in StartDatasets
          /\ files = [p \in Paths |->
                        IF p = "ab_test_data.csv" THEN StartFile ELSE NoFile]
       \/ /\ df = <<>>
          /\ files \in { [p \in Paths |-> NoFile],
                         [p \in Paths |->
                            IF p = "ab_test_data.csv" THEN NoFile ELSE StartFile] }
    /\ reqs = [r \in Slots |-> IdleRequest]
    /\ rng = 0
    /\ cwd = "started"
    /\ started = files

core == <<build, df, args, call, ret, library, earlier, started>>

\* the handler of slot r ends with this response
Respond(r, resp) ==
    reqs' = [reqs EXCEPT ![r].pc = "done", ![r].resp = resp]

(* POST /generate-data (main.py lines 60-76) *)

\* data_generator.py line 21: np.random.seed(seed)
GenerateDataSeed(r) ==
    /\ reqs[r].pc = "idle"
    /\ rng' = 0
    /\ reqs' = [reqs EXCEPT ![r].kind = "generate_data", ![r].pc = "draw_control"]
    /\ UNCHANGED <<core, files, cwd>>

\* lines 28-31
GenerateDataDrawControl(r) ==
    /\ reqs[r].pc = "draw_control"
    /\ rng' = rng + 1
    /\ reqs' = [reqs EXCEPT ![r].draws = <<rng>>, ![r].pc = "draw_variant"]
    /\ UNCHANGED <<core, files, cwd>>

\* lines 34-68
GenerateDataDrawVariant(r) ==
    /\ reqs[r].pc = "draw_variant"
    /\ rng' = rng + 1
    /\ LET draws == Append(reqs[r].draws, rng)
       IN  reqs' = [reqs EXCEPT ![r].draws = draws,
                                ![r].df = generate_ab_test_data(draws),
                                ![r].pc = "save"]
    /\ UNCHANGED <<core, files, cwd>>

\* save_dataset (lines 71-74): df.to_csv opens the file and writes
SaveDatasetBegin(r) ==
    /\ reqs[r].pc = "save"
    /\ files' = [files EXCEPT !["ab_test_data.csv"] = BeginWrite(@, r)]
    /\ reqs' = [reqs EXCEPT ![r].pc = "saving"]
    /\ UNCHANGED <<core, rng, cwd>>

SaveDatasetEnd(r) ==
    /\ reqs[r].pc = "saving"
    /\ files' = [files EXCEPT !["ab_test_data.csv"] = EndWrite(@, r)]
    /\ reqs' = [reqs EXCEPT ![r].pc = "respond"]
    /\ UNCHANGED <<core, rng, cwd>>

\* main.py lines 68-74
GenerateDataRespond(r) ==
    /\ reqs[r].kind = "generate_data"
    /\ reqs[r].pc = "respond"
    /\ Respond(r, Response200([rows |-> Len(reqs[r].df)]))
    /\ UNCHANGED <<core, files, rng, cwd>>

(* POST /run-analysis (main.py lines 80-142) *)

\* the except clause, lines 141-142
AnalysisFailed(r, e) == Respond(r, HTTPException(500, "Analysis failed", e))

\* RunAnalysisCheckDataset without the test of lines 93-97
RunAnalysisCheckDataset_NoCheck(r) ==
    /\ reqs[r].pc = "idle"
    /\ reqs' = [reqs EXCEPT ![r].kind = "run_analysis", ![r].pc = "load"]
    /\ UNCHANGED <<core, files, rng, cwd>>

\* lines 93-97
RunAnalysisCheckDataset(r) ==
    /\ reqs[r].pc = "idle"
    /\ IF files["ab_test_data.csv"].exists
       THEN reqs' = [reqs EXCEPT ![r].kind = "run_analysis", ![r].pc = "load"]
       ELSE reqs' = [reqs EXCEPT ![r].kind = "run_analysis", ![r].pc = "done",
                                 ![r].resp = HTTPException(404, "Dataset not found", "")]
    /\ UNCHANGED <<core, files, rng, cwd>>

\* lines 101-118: os.chdir, pd.read_csv and the five analyses
RunAnalysisCore(r) ==
    /\ reqs[r].pc = "load"
    /\ cwd' = "BASE_DIR"
    /\ \E d \in read_csv(files["ab_test_data.csv"]) :
       LET result == IF d.ok THEN core_analysis(build, d.val, library.tests,
                                                library.nan_raises)
                     ELSE d
       IN  reqs' = [reqs EXCEPT
                      ![r].df   = IF d.ok THEN d.val ELSE <<>>,
                      ![r].torn = IF Complete(files["ab_test_data.csv"]) THEN {}
                                  ELSE {"ab_test_data.csv"},
                      ![r].core = result,
                      ![r].k    = IF d.ok THEN 1 ELSE 0,
                      ![r].pc   = IF result.ok THEN "plot" ELSE "done",
                      ![r].resp = IF result.ok THEN NoResponse
                                  ELSE HTTPException(500, "Analysis failed", result.err)]
    /\ UNCHANGED <<core, files, rng>>

\* plot k of generate_all_plots (line 121): the figure is computed, then
\* _save (visualization.py lines 19-24) opens the file and writes
PlotBegin(r) ==
    /\ reqs[r].pc = "plot"
    /\ LET k == reqs[r].k
           e == PlotError(k, reqs[r].df)
       IN  IF e # "none"
           THEN AnalysisFailed(r, e) /\ UNCHANGED files
           ELSE /\ files' = [files EXCEPT ![PlotNames[k]] = BeginWrite(@, r)]
                /\ reqs' = [reqs EXCEPT ![r].pc = "plotting"]
    /\ UNCHANGED <<core, rng, cwd>>

PlotEnd(r) ==
    /\ reqs[r].pc = "plotting"
    /\ LET k == reqs[r].k
       IN  /\ files' = [files EXCEPT ![PlotNames[k]] = EndWrite(@, r)]
           /\ reqs' = [reqs EXCEPT ![r].k = k + 1,
                                   ![r].pc = IF k < Len(PlotNames) THEN "plot"
                                             ELSE "report"]
    /\ UNCHANGED <<core, rng, cwd>>

\* report k of generate_all_reports (line 136).  save_pdf_report embeds the
\* plot files that exist (report_generator.py lines 331-337) when it builds
\* the document: an image file that is empty or cut short cannot be read
ReportBegin(r) ==
    /\ reqs[r].pc = "report"
    /\ LET name  == OutputNames[reqs[r].k]
           plots == { files[PlotNames[i]] : i \in 1..Len(PlotNames) }
           reads == IF name = "report.pdf" THEN { f \in plots : f.exists } ELSE {}
       IN  IF \E f \in reads : Truncated(f)
           THEN /\ reqs' = [reqs EXCEPT
                              ![r].torn = @ \cup { p \in OutputPaths :
                                                     files[p] \in reads
                                                     /\ Truncated(files[p]) },
                              ![r].pc   = "done",
                              ![r].resp = HTTPException(500, "Analysis failed",
                                              "OSError: image file is truncated")]
                /\ UNCHANGED files
           ELSE /\ files' = [files EXCEPT ![name] = BeginWrite(@, r)]
                /\ reqs' = [reqs EXCEPT ![r].pc = "reporting"]
    /\ UNCHANGED <<core, rng, cwd>>

ReportEnd(r) ==
    /\ reqs[r].pc = "reporting"
    /\ LET k == reqs[r].k
       IN  /\ files' = [files EXCEPT ![OutputNames[k]] = EndWrite(@, r)]
           /\ reqs' = [reqs EXCEPT ![r].k = k + 1,
                                   ![r].pc = IF k < Len(OutputNames) THEN "report"
                                             ELSE "respond"]
    /\ UNCHANGED <<core, rng, cwd>>

\* line 139, and lines 141-142 when the response cannot be encoded
RunAnalysisRespond(r) ==
    /\ reqs[r].kind = "run_analysis"
    /\ reqs[r].pc = "respond"
    /\ LET response == JSONResponse(reqs[r].core.val)
       IN  IF response.ok THEN Respond(r, Response200(response))
           ELSE AnalysisFailed(r, response.err)
    /\ UNCHANGED <<core, files, rng, cwd>>

(* GET /report (main.py lines 146-156) *)

\* str(x) of a numpy.bool_
BoolStr(x) == IF x THEN "True" ELSE "False"

\* report_generator.save_json_report (line 28), json.dump(report_data, f,
\* default = str): a value of a type json does not encode is saved as the
\* string str() gives for it
save_json_report(report_data) ==
    [report_data EXCEPT !.hypothesis_tests =
        [m \in DOMAIN @ |->
            [@[m] EXCEPT !.significant =
                IF SignificantType \in JsonTypes THEN @ ELSE BoolStr(@)]]]

\* json.load of the complete report.json that writer w saved (0: the file
\* the service found when it started, of unknown content)
SavedReport(w) ==
    IF w = 0 THEN NoValue ELSE save_json_report(reqs[w].core.val)

\* lines 149-153
GetReportCheck(r) ==
    /\ reqs[r].pc = "idle"
    /\ IF files["report.json"].exists
       THEN reqs' = [reqs EXCEPT ![r].kind = "get_report", ![r].pc = "read"]
       ELSE reqs' = [reqs EXCEPT ![r].kind = "get_report", ![r].pc = "done",
                                 ![r].resp = HTTPException(404, "Report not found", "")]
    /\ UNCHANGED <<core, files, rng, cwd>>

\* lines 154-156: json.load of what is in the file.  The handler catches
\* nothing: text that is empty or cut short is a JSONDecodeError and the
\* server answers 500
GetReportRead(r) ==
    /\ reqs[r].pc = "read"
    /\ LET f == files["report.json"]
       IN  reqs' = [reqs EXCEPT
                      ![r].torn = IF Complete(f) THEN {} ELSE {"report.json"},
                      ![r].pc   = "done",
                      ![r].resp =
                          IF Complete(f)
                          THEN Response200([saved_by |-> f.content,
                                            report   |-> SavedReport(f.content[1])])
                          ELSE HTTPException(500, "Internal Server Error",
                                             "JSONDecodeError")]
    /\ UNCHANGED <<core, files, rng, cwd>>

Next ==
    \E r \in Slots :
        \/ GenerateDataSeed(r)
        \/ GenerateDataDrawControl(r)
        \/ GenerateDataDrawVariant(r)
        \/ SaveDatasetBegin(r)
        \/ SaveDatasetEnd(r)
        \/ GenerateDataRespond(r)
        \/ RunAnalysisCheckDataset(r)
        \/ RunAnalysisCore(r)
        \/ PlotBegin(r)
        \/ PlotEnd(r)
        \/ ReportBegin(r)
        \/ ReportEnd(r)
        \/ RunAnalysisRespond(r)
        \/ GetReportCheck(r)
        \/ GetReportRead(r)

Spec == Init /\ [][Next]_vars

----------------------------------------------------------------------------
(* C1: generate_business_insights returns the label of the first matching  *)
(* rule: (1) at least 2 metrics significant, conversion significant and    *)
(* uplift > 0: ROLLOUT; (2) else conversion significant and uplift > 5:    *)
(* ROLLOUT; (3) else exactly one metric significant and conversion not:    *)
(* DO NOT ROLLOUT; (4) otherwise MONITOR.                                   *)

\* x is a number greater than the bound (in 1/100 percent); false for NaN
UpliftAbove(x, bound) == x.k = "num" /\ x.v > bound

ExpectedLabel(c, t, k, u) ==
    LET others == {x \in {"time_spent", "clicks"} :
                     (x = "time_spent" /\ t) \/ (x = "clicks" /\ k)}
        rule1  == c /\ others # {} /\ UpliftAbove(u, 0)
        rule2  == c /\ UpliftAbove(u, 500)
        rule3  == ~c /\ Cardinality(others) = 1
    IN  IF rule1 THEN "ROLLOUT"
        ELSE IF rule2 THEN "ROLLOUT"
        ELSE IF rule3 THEN "DO NOT ROLLOUT"
        ELSE "MONITOR"

C1_FirstMatchingRule ==
    call = "generate_business_insights" =>
        ret.val.recommendation =
            ExpectedLabel(args.test_results.conversion_rate.significant,
                          args.test_results.time_spent.significant,
                          args.test_results.clicks.significant,
                          args.power.conversion_uplift_pct)

\* rule 1 does not match (conversion is the only significant metric), rule 2
\* does (uplift 5.01 percent): ROLLOUT with the rationale of rule 2
C1_Witness ==
    /\ call = "generate_business_insights"
    /\ args.test_results.conversion_rate.significant
    /\ ~args.test_results.time_spent.significant
    /\ ~args.test_results.clicks.significant
    /\ args.power.conversion_uplift_pct = Num(501)
    /\ ret.val.recommendation = "ROLLOUT"
    /\ ret.val.rationale.text = "practical_uplift"

----------------------------------------------------------------------------
nControl == Len(Filter(df, "control"))
nVariant == Len(Filter(df, "variant"))
convControl == ColSum(Filter(df, "control"), "converted")
convVariant == ColSum(Filter(df, "variant"), "converted")

\* the TestResults a call of a test function returned
ReturnedTests ==
    IF call \in {"two_proportion_ztest", "independent_ttest"} THEN {ret.val}
    ELSE IF call = "run_all_tests"
    THEN {ret.val.conversion_rate, ret.val.time_spent, ret.val.clicks}
    ELSE {}

(* C2: in every TestResult returned by two_proportion_ztest and by         *)
(* independent_ttest (and in every entry of run_all_tests), significant is *)
(* true exactly when the reported p_value is strictly less than alpha.     *)
C2_SignificantIffReportedPBelowAlpha ==
    \A r \in ReturnedTests : r.significant <=> FLt(r.p_value, Num(r.alpha))

(* C3: for every dataset with both groups non-empty, each of the three     *)
(* intervals returned by compute_all_cis has lower <= point_estimate <=    *)
(* upper.                                                                  *)
C3_IntervalsOrdered ==
    (call = "compute_all_cis" /\ nControl > 0 /\ nVariant > 0) =>
        \A m \in {"conversion_rate", "time_spent", "clicks"} :
            /\ FLe(ret.val[m].lower, ret.val[m].point_estimate)
            /\ FLe(ret.val[m].point_estimate, ret.val[m].upper)

(* C4: power_analysis_conversion and power_analysis_ttest return a result  *)
(* with a non-negative integer sample size when the effect size is > 0,    *)
(* and return a result (infinite sample size) instead of raising when the  *)
(* effect size is exactly 0.                                               *)
EffectIsZeroOrPositive ==
    \/ /\ call = "power_analysis_conversion"
       /\ nControl > 0 /\ nVariant > 0
    \/ /\ call = "power_analysis_ttest"
       /\ nControl >= 2 /\ nVariant >= 2

C4_PowerAnalysisReturns ==
    EffectIsZeroOrPositive =>
        /\ ret.ok
        /\ LET effect == IF call = "power_analysis_conversion"
                         THEN ret.val.effect_size_h ELSE ret.val.cohens_d
           IN  effect.v > 0 => ret.val.required_sample_size_per_group \in Nat

(* C5: when the dataset has no row for one of the two groups,              *)
(* compute_metrics_summary fails with an error and returns no summary.     *)
C5_EmptyGroupIsAnError ==
    (call = "compute_metrics_summary" /\ (nControl = 0 \/ nVariant = 0)) => ~ret.ok

(* C6: when the control conversion rate is 0, the relative uplift is 0 and *)
(* no error is raised, both in conversion_uplift and in the uplift that    *)
(* two_proportion_ztest computes for its result.                           *)
C6_UpliftZeroWhenControlRateZero ==
    (nControl > 0 /\ nVariant > 0 /\ convControl = 0) =>
        /\ call = "conversion_uplift" => (ret.ok /\ ret.val = Frac(0, 1))
        /\ call = "two_proportion_ztest" =>
              (ret.ok /\ ret.val.interpretation.value = Num(0))

(* C7: when the pooled standard error of the two-proportion test is 0 (no  *)
(* user converted in either group, or every user converted in both),       *)
(* two_proportion_ztest reports statistic 0: no error and no NaN.          *)
PooledSEIsZero ==
    /\ nControl > 0 /\ nVariant > 0
    /\ \/ convControl + convVariant = 0
       \/ convControl + convVariant = nControl + nVariant

C7_ZeroStandardErrorGivesZero ==
    (call = "two_proportion_ztest" /\ PooledSEIsZero) =>
        (ret.ok /\ ret.val.statistic = Num(0))

(* C8: the statistic of independent_ttest is oriented variant minus        *)
(* control: positive when the variant mean exceeds the control mean,       *)
(* negative when the control mean exceeds the variant mean.                *)
StatisticSign(x) == IF x.k = "nan" THEN 0 ELSE Sign(x.v)

C8_TStatisticVariantMinusControl ==
    call = "independent_ttest" =>
        LET s == MeanDiffSign(Filter(df, "variant"), Filter(df, "control"),
                              ret.val.metric)
        IN  (IsNaN(ret.val.statistic) \/ s = 0)
            \/ StatisticSign(ret.val.statistic) = s

----------------------------------------------------------------------------
(* C9: when two POST /run-analysis requests run concurrently, their writes *)
(* to each shared output path are serialized: at no time do two requests   *)
(* have the same output file open for writing, and no POST /run-analysis   *)
(* or GET /report request reads an output file while it is incomplete.     *)
C9_OutputWritesSerialized ==
    /\ \A p \in OutputPaths : Cardinality(files[p].writers) <= 1
    /\ \A r \in Slots : reqs[r].torn \cap OutputPaths = {}

(* C10: if a per-metric computation of an aggregate raises on the dataset  *)
(* a POST /run-analysis request loaded, the aggregate returns that first   *)
(* error and no result dict, and the request is answered with HTTP 500     *)
(* whose detail is "Analysis failed" followed by that error, with no body. *)
PerMetricPower(d) ==
    LET control == Filter(d, "control")
        variant == Filter(d, "variant")
    IN  <<power_analysis_conversion(build, Mean(control, "converted"),
                                    Mean(variant, "converted"), Alpha, Power80,
                                    library.nan_raises),
          power_analysis_ttest(build, control, variant, "time_spent", Alpha, Power80),
          power_analysis_ttest(build, control, variant, "clicks", Alpha, Power80)>>

\* the requests whose five analyses were run on a loaded dataset
Analysed == { r \in Slots : reqs[r].kind = "run_analysis" /\ reqs[r].k > 0 }

----------------------------------------------------------------------------
MetricNames == {"conversion_rate", "time_spent", "clicks"}

(* C11: every result of generate_business_insights has recommendation in   *)
(* {ROLLOUT, DO NOT ROLLOUT, MONITOR}, total_metrics_tested equal to 3 and *)
(* significant_metrics equal to the number of true flags among the         *)
(* conversion_rate, time_spent and clicks significance flags (0 to 3).     *)
C11_LabelAndCounts ==
    call = "generate_business_insights" =>
        /\ ret.val.recommendation \in {"ROLLOUT", "DO NOT ROLLOUT", "MONITOR"}
        /\ ret.val.total_metrics_tested = 3
        /\ ret.val.significant_metrics =
               Cardinality({ m \in MetricNames : args.test_results[m].significant })
        /\ ret.val.significant_metrics \in 0..3

\* conversion is the only significant metric: the count returned is 1
C11_Witness ==
    /\ call = "generate_business_insights"
    /\ args.test_results.conversion_rate.significant
    /\ ~args.test_results.time_spent.significant
    /\ ~args.test_results.clicks.significant
    /\ ret.val.significant_metrics = 1
    /\ ret.val.total_metrics_tested = 3

(* C12: the recommendation label and the rationale returned by             *)
(* generate_business_insights depend on the test results and the power     *)
(* output only: a call and any call made before it with equal test_results *)
(* and equal power returned the same label and the same rationale,         *)
(* whatever metrics summary each was given.                                *)
C12_VerdictFromTestsAndPowerOnly ==
    (/\ call = "generate_business_insights"
     /\ earlier # NoValue
     /\ earlier.args.test_results = args.test_results
     /\ earlier.args.power = args.power)
    => /\ ret.val.recommendation = earlier.ret.val.recommendation
       /\ ret.val.rationale = earlier.ret.val.rationale

\* two calls with equal test results and power and different metrics
\* summaries, both answered by rule 2 with the uplift quoted
C12_Witness ==
    /\ call = "generate_business_insights"
    /\ earlier # NoValue
    /\ earlier.args.test_results = args.test_results
    /\ earlier.args.power = args.power
    /\ earlier.args.metrics # args.metrics
    /\ ret.val.rationale = Rationale("practical_uplift", Num(501))
    /\ earlier.ret.val.rationale = ret.val.rationale

(* C16: the insights list of generate_business_insights starts with the    *)
(* conversion insight (the significant-lift text when conversion is        *)
(* significant, otherwise the text that no reliable effect was found),     *)
(* followed by the time_spent insight if and only if time_spent is         *)
(* significant, followed by the clicks insight if and only if clicks is    *)
(* significant: its length is 1 + [time_spent significant] + [clicks       *)
(* significant].                                                           *)
C16_InsightsOrderedAndComplete ==
    call = "generate_business_insights" =>
        LET c == args.test_results.conversion_rate.significant
            t == args.test_results.time_spent.significant
            k == args.test_results.clicks.significant
            texts == [i \in 1..Len(ret.val.insights) |-> ret.val.insights[i].text]
            expected ==
                <<IF c THEN "conversion_lift" ELSE "conversion_not_significant">>
                \o (IF t THEN <<"time_spent_gain">> ELSE <<>>)
                \o (IF k THEN <<"clicks_gain">> ELSE <<>>)
        IN  /\ texts = expected
            /\ Len(ret.val.insights) = 1 + BoolToInt(t) + BoolToInt(k)

\* conversion not significant, time_spent and clicks significant: the three
\* entries in order
C16_Witness ==
    /\ call = "generate_business_insights"
    /\ ~args.test_results.conversion_rate.significant
    /\ args.test_results.time_spent.significant
    /\ args.test_results.clicks.significant
    /\ Len(ret.val.insights) = 3
    /\ ret.val.insights[1].text = "conversion_not_significant"
    /\ ret.val.insights[2].text = "time_spent_gain"
    /\ ret.val.insights[3].text = "clicks_gain"

(* C20: whenever generate_business_insights returns MONITOR, whose         *)
(* rationale states that the primary metric does not meet significance     *)
(* thresholds, the conversion_rate test is not significant.                *)
C20_MonitorOnlyWhenConversionNotSignificant ==
    (call = "generate_business_insights" /\ ret.val.recommendation = "MONITOR")
        => ~args.test_results.conversion_rate.significant

----------------------------------------------------------------------------
(* C13: a successful run_all_tests returns exactly three results, under    *)
(* the keys conversion_rate, time_spent and clicks and no other key, and   *)
(* the metric field of each result equals the key it is stored under.      *)
C13_ThreeResultsUnderFixedKeys ==
    (call = "run_all_tests" /\ ret.ok) =>
        /\ DOMAIN ret.val = MetricNames
        /\ \A m \in MetricNames : ret.val[m].metric = m

\* a run over two users per group with different clicks means
C13_Witness ==
    /\ call = "run_all_tests"
    /\ ret.ok
    /\ nControl = 2 /\ nVariant = 2
    /\ ret.val.clicks.metric = "clicks"
    /\ ret.val.clicks.test_type = "Independent T-Test (Welch)"
    /\ IsNum(ret.val.clicks.statistic) /\ ret.val.clicks.statistic.v # 0

(* C17: actual_sample_size_per_group returned by run_power_analysis is the *)
(* observed sample size of each group: for every dataset it equals the     *)
(* number of control rows and the number of variant rows, the n_users      *)
(* values of compute_metrics_summary.                                      *)
C17_ActualSampleSizeOfEachGroup ==
    (call = "run_power_analysis" /\ ret.ok) =>
        /\ ret.val.actual_sample_size_per_group
              = compute_metrics_summary(df).control.n_users
        /\ ret.val.actual_sample_size_per_group
              = compute_metrics_summary(df).variant.n_users

----------------------------------------------------------------------------
(* C14: rows whose group label is neither control nor variant are dropped  *)
(* silently: a POST /run-analysis over a dataset that contains such rows   *)
(* completes without error and yields the same metrics summary, hypothesis *)
(* tests, confidence intervals, power analysis and recommendation as the   *)
(* run over the dataset with those rows removed.                           *)
HasOtherLabel(d) == \E i \in 1..Len(d) : d[i].group \notin Labels

WithoutOtherLabels(d) == SelectSeq(d, LAMBDA row : row.group \in Labels)

C14_OtherLabelsSilentlyDropped ==
    \A r \in Analysed :
        (HasOtherLabel(reqs[r].df) /\ reqs[r].pc = "done") =>
            /\ reqs[r].resp.status = 200
            /\ reqs[r].core = core_analysis(build, WithoutOtherLabels(reqs[r].df),
                                            library.tests, library.nan_raises)

(* C18: analysis is stateless between invocations: a step of a POST        *)
(* /run-analysis request modifies neither the dataset it is given nor any  *)
(* process-wide state (the working directory, the random generator); its   *)
(* only effects are its result and its output artifacts.                   *)
RunAnalysisStep ==
    \E r \in Slots : reqs'[r] # reqs[r] /\ reqs'[r].kind = "run_analysis"

C18_AnalysisIsStateless ==
    [][RunAnalysisStep =>
          /\ cwd' = cwd
          /\ rng' = rng
          /\ df' = df
          /\ files'["ab_test_data.csv"] = files["ab_test_data.csv"]]_vars

(* C19: a POST /run-analysis request that ends in an error leaves every    *)
(* output artifact as it was before the request (artifacts are written     *)
(* only at the end of a run that has fully succeeded), so GET /report      *)
(* never returns data written by a failed run.                             *)
FailedRuns ==
    { r \in Slots : /\ reqs[r].kind = "run_analysis"
                    /\ reqs[r].pc = "done"
                    /\ reqs[r].resp.status >= 400 }

\* the output files request r has opened for writing: those before the
\* output it is at, and the one it is writing
Produced(r) ==
    { OutputNames[i] : i \in 1..(reqs[r].k - 1) }
        \cup { p \in OutputPaths : r \in files[p].writers }

C19_FailedRunWritesNothing ==
    /\ \A r \in FailedRuns : Produced(r) = {}
    /\ \A g \in Slots :
          (reqs[g].kind = "get_report" /\ reqs[g].resp.status = 200) =>
              \A r \in FailedRuns : reqs[g].resp.body.saved_by # <<r>>

----------------------------------------------------------------------------
(* C15: cohens_d and effect_size_proportions never return a negative       *)
(* value, for all inputs; cohens_d returns exactly 0 when the pooled       *)
(* standard deviation is 0 (both stds 0), without dividing by zero, also   *)
(* when the two means differ.                                              *)
C15_EffectSizesNotNegative ==
    /\ call \in {"cohens_d", "effect_size_proportions"} =>
           (ret.ok /\ ~FLt(ret.val, Num(0)))
    /\ (call = "cohens_d" /\ args.std1 = Num(0) /\ args.std2 = Num(0)) =>
           ret.val = Num(0)

\* both stds 0 and mean2 below mean1: the call returned 0
C15_Witness ==
    /\ call = "cohens_d"
    /\ args.std1 = Num(0) /\ args.std2 = Num(0)
    /\ args.mean1 = Num(2) /\ args.mean2 = Num(1)
    /\ ret = Ok(Num(0))

----------------------------------------------------------------------------
(* C21: a POST /run-analysis issued while the dataset file does not exist  *)
(* answers 404 and has no effect: it runs no analysis, writes no plot or   *)
(* report file and leaves the existing output artifacts unchanged.  (No    *)
(* request removes a file: while the dataset file does not exist, it never *)
(* existed.)                                                               *)
C21_NoDatasetNoEffect ==
    /\ ~files["ab_test_data.csv"].exists =>
          /\ \A r \in Slots :
                reqs[r].kind = "run_analysis" =>
                    /\ reqs[r].pc = "done"
                    /\ reqs[r].resp = HTTPException(404, "Dataset not found", "")
          /\ \A p \in OutputPaths : files[p] = started[p]
          /\ cwd = "started"
    /\ \A r \in Slots :
          (reqs[r].kind = "run_analysis" /\ reqs[r].resp.status = 404) =>
              /\ reqs[r].pc = "done"
              /\ reqs[r].k = 0
              /\ reqs[r].df = <<>>
              /\ reqs[r].core = NoValue
              /\ Produced(r) = {}

\* the report of an earlier run is there, the dataset file is not: the
\* request was answered 404 and the report is as it was
C21_Witness ==
    /\ ~files["ab_test_data.csv"].exists
    /\ started["report.json"].exists
    /\ files["report.json"] = started["report.json"]
    /\ \E r \in Slots :
          /\ reqs[r].kind = "run_analysis"
          /\ reqs[r].pc = "done"
          /\ reqs[r].resp.status = 404

(* C22: in every sequence of requests starting with no report.json, GET    *)
(* /report answers 404 until some POST /run-analysis has written           *)
(* report.json; after a POST /run-analysis that returned successfully,     *)
(* every later GET /report returns the report saved by the most recent run *)
(* that wrote report.json, with the same metrics_summary,                  *)
(* hypothesis_tests, confidence_intervals, power_analysis and              *)
(* business_insights values that this run returned to its caller.          *)
ReportKeys ==
    {"metrics_summary", "hypothesis_tests", "confidence_intervals",
     "power_analysis", "business_insights"}

\* the runs that have written report.json and closed it
ReportWritten ==
    { r \in Slots : /\ reqs[r].kind = "run_analysis"
                    /\ \E i \in 1..(reqs[r].k - 1) : OutputNames[i] = "report.json" }

\* the runs that returned successfully
Succeeded ==
    { r \in Slots : reqs[r].kind = "run_analysis" /\ reqs[r].resp.status = 200 }

\* the step in which the GET /report request of slot g is answered
GetReportAnswered(g) ==
    /\ reqs'[g].kind = "get_report"
    /\ reqs[g].pc # "done"
    /\ reqs'[g].pc = "done"

C22_ReportOfTheLastRun ==
    [][\A g \in Slots :
          GetReportAnswered(g) =>
              /\ (~started["report.json"].exists /\ ReportWritten = {}) =>
                     reqs'[g].resp.status = 404
              /\ Succeeded # {} =>
                     /\ reqs'[g].resp.status = 200
                     /\ reqs'[g].resp.body.saved_by = files["report.json"].content
                     /\ \E w \in ReportWritten :
                           /\ reqs'[g].resp.body.saved_by = <<w>>
                           /\ \A key \in ReportKeys :
                                 reqs'[g].resp.body.report[key]
                                     = reqs[w].resp.body.val[key]]_vars

(* C23: generate_ab_test_data is reproducible: any two calls with the same *)
(* n_users and the same seed return identical datasets, also when they     *)
(* come from POST /generate-data requests whose executions overlap, so the *)
(* dataset file that POST /generate-data saves is always the same.         *)
\* the POST /generate-data requests whose call of generate_ab_test_data
\* has returned
Generated ==
    { r \in Slots : /\ reqs[r].kind = "generate_data"
                    /\ reqs[r].pc \in {"save", "saving", "respond", "done"} }

C23_GenerationReproducible ==
    /\ \A r, q \in Generated : reqs[r].df = reqs[q].df
    /\ \A r \in Generated :
          (/\ Complete(files["ab_test_data.csv"])
           /\ files["ab_test_data.csv"].content = <<r>>) =>
              WrittenBy(r) = SeededDataset

(* C24: for every dataset in which the variant conversion rate is strictly *)
(* greater than a non-zero control conversion rate, the conversion test is *)
(* significant and at least one of time_spent and clicks is significant,   *)
(* run_power_analysis followed by generate_business_insights recommends    *)
(* ROLLOUT: rule 1 applies to every strictly positive uplift, however      *)
(* small.                                                                  *)
C24_PositiveUpliftRollsOut ==
    (/\ call = "run_power_analysis, generate_business_insights"
     /\ ret.ok
     /\ args.control.converted > 0
     /\ args.variant.converted * args.control.n
            > args.control.converted * args.variant.n
     /\ args.test_results.conversion_rate.significant
     /\ \/ args.test_results.time_spent.significant
        \/ args.test_results.clicks.significant)
        => ret.val.business_insights.recommendation = "ROLLOUT"

====
